---- MODULE Spec2Model ----
(***************************************************************************)
(* Invoice mutation handlers of app/lib/actions.tsx: createInvoice,        *)
(* updateInvoice and deleteInvoice, with the zod schema they validate      *)
(* against, the invoices table they write to, and the two framework calls  *)
(* (revalidatePath, redirect) they make.                                   *)
(*                                                                         *)
(* One action is one whole invocation of a handler.  The outcome of the    *)
(* awaited sql statement (it resolves or it rejects) and of revalidatePath *)
(* (it returns or it raises) are inputs of the invocation.  The variable   *)
(* call records the invocation of the request being served: its arguments, *)
(* the table before it, the external calls it made in order, and how it    *)
(* ended.  It is discarded when the request ends.                          *)
(***************************************************************************)
EXTENDS Integers, Sequences, FiniteSets

VARIABLES table, nextId, today, ops, call

vars == <<table, nextId, today, ops, call>>

(***************************************************************************)
(* Bounds of the model.                                                    *)
(***************************************************************************)
\* steps (handler invocations and day changes) in one behaviour
MaxOps == 2
\* calendar days the clock can advance
MaxDay == 1
\* fraction digits kept by the fixed-point representation of a number
FracDigits == 3

RECURSIVE Pow10(_)
Pow10(n) == IF n = 0 THEN 1 ELSE 10 * Pow10(n - 1)

\* one unit, in the fixed-point representation
Scale == Pow10(FracDigits)

(***************************************************************************)
(* Form data.  formData.get(name) is null for an absent field and a string *)
(* otherwise.  The text of customerId and status is only compared, so it   *)
(* is a string; the text of amount is read character by character by the   *)
(* coercion, so it is a sequence of characters.                            *)
(***************************************************************************)
Null == [type |-> "null"]
Str(s) == [type |-> "string", val |-> s]

CustomerInputs == {Null, Str(""), Str("c1"), Str("c2")}

\* Every decimal here is a multiple of 1/8: it is exactly a double, and so
\* is its product with 100, so the arithmetic below is the arithmetic of
\* the JavaScript numbers.
AmountInputs ==
    { Null,
      Str(<<"a", "b", "c">>),
      Str(<<"0">>),
      Str(<<"-", "2", ".", "5">>),
      Str(<<"0", ".", "1", "2", "5">>),
      Str(<<"4", "5", ".", "5">>) }

StatusInputs == {Null, Str("pending"), Str("paid"), Str("draft")}

Forms == [customerId : CustomerInputs, amount : AmountInputs, status : StatusInputs]

NoForm == [customerId |-> Null, amount |-> Null, status |-> Null]

(***************************************************************************)
(* Numbers.  A number is NaN or a fixed-point value: milli / Scale.        *)
(***************************************************************************)
NaN == [nan |-> TRUE, milli |-> 0]
Num(m) == [nan |-> FALSE, milli |-> m]

Digits == {"0", "1", "2", "3", "4", "5", "6", "7", "8", "9"}

DigitVal(c) ==
    CASE c = "0" -> 0 [] c = "1" -> 1 [] c = "2" -> 2 [] c = "3" -> 3
      [] c = "4" -> 4 [] c = "5" -> 5 [] c = "6" -> 6 [] c = "7" -> 7
      [] c = "8" -> 8 [] c = "9" -> 9

IsDigits(s) == \A i \in DOMAIN s : s[i] \in Digits

RECURSIVE DigitsValue(_)
DigitsValue(s) ==
    IF s = << >> THEN 0
    ELSE 10 * DigitsValue(SubSeq(s, 1, Len(s) - 1)) + DigitVal(s[Len(s)])

\* Number(string) on decimal literals: the empty string is 0, an optional
\* sign, digits with at most one point and at least one digit; anything
\* else is NaN.  (Fractions have at most FracDigits digits.)
StringToNumber(s) ==
    IF s = << >> THEN Num(0)
    ELSE LET neg  == s[1] = "-"
             body == IF s[1] \in {"-", "+"} THEN Tail(s) ELSE s
             dots == {i \in DOMAIN body : body[i] = "."}
         IN  IF Cardinality(dots) > 1 THEN NaN
             ELSE LET d    == IF dots = {} THEN Len(body) + 1
                              ELSE CHOOSE i \in dots : TRUE
                      int  == SubSeq(body, 1, d - 1)
                      frac == SubSeq(body, d + 1, Len(body))
                      mag  == DigitsValue(int) * Scale
                              + DigitsValue(frac) * Pow10(FracDigits - Len(frac))
                  IN  IF ~IsDigits(int) \/ ~IsDigits(frac)
                         \/ (int = << >> /\ frac = << >>)
                      THEN NaN
                      ELSE Num(IF neg THEN 0 - mag ELSE mag)

\* z.coerce: Number(input); Number(null) is 0
CoerceNumber(v) == IF v = Null THEN Num(0) ELSE StringToNumber(v.val)

(***************************************************************************)
(* FormSchema, and CreateInvoice / UpdateInvoice = FormSchema without id   *)
(* and date.  Each field parser yields the parsed value and its issues.    *)
(***************************************************************************)
MsgCustomer == "Please select a customer."
MsgAmount == "Please enter an amount greater than $0."
MsgStatus == "Please select an invoice status."
\* zod's own messages, where the schema gives none
MsgNaN == "Expected number, received nan"
MsgEnum == "Invalid enum value."

StatusEnum == {"pending", "paid"}

\* customerId: z.string({invalid_type_error})
ParseCustomerId(v) ==
    IF v.type = "string" THEN [issues |-> << >>, value |-> v.val]
    ELSE [issues |-> <<MsgCustomer>>, value |-> ""]

\* a slip: gte(0) for gt(0)
ParseAmountGte(v) ==
    LET n == CoerceNumber(v)
    IN  IF n.nan THEN [issues |-> <<MsgNaN>>, value |-> n]
        ELSE IF n.milli >= 0 THEN [issues |-> << >>, value |-> n]
        ELSE [issues |-> <<MsgAmount>>, value |-> n]

\* amount: z.coerce.number().gt(0, {message})
ParseAmount(v) ==
    LET n == CoerceNumber(v)
    IN  IF n.nan THEN [issues |-> <<MsgNaN>>, value |-> n]
        ELSE IF n.milli > 0 THEN [issues |-> << >>, value |-> n]
        ELSE [issues |-> <<MsgAmount>>, value |-> n]

\* status: z.enum(['pending', 'paid'], {invalid_type_error})
ParseStatus(v) ==
    IF v.type # "string" THEN [issues |-> <<MsgStatus>>, value |-> ""]
    ELSE IF v.val \in StatusEnum THEN [issues |-> << >>, value |-> v.val]
    ELSE [issues |-> <<MsgEnum>>, value |-> ""]

Fields == {"customerId", "amount", "status"}

ParseField(f, formData) ==
    CASE f = "customerId" -> ParseCustomerId(formData.customerId)
      [] f = "amount" -> ParseAmount(formData.amount)
      [] f = "status" -> ParseStatus(formData.status)

\* safeParse(...), with error.flatten().fieldErrors: a list of messages for
\* each field that has an issue, and no entry for the others
SafeParse(formData) ==
    LET failing == {f \in Fields : ParseField(f, formData).issues # << >>}
    IN  [success |-> failing = {},
         fieldErrors |-> [f \in failing |-> ParseField(f, formData).issues],
         data |-> [customerId |-> ParseCustomerId(formData.customerId).value,
                   amount |-> ParseAmount(formData.amount).value,
                   status |-> ParseStatus(formData.status).value]]

(***************************************************************************)
(* Results of an invocation.                                               *)
(***************************************************************************)
NoErrors == [f \in {} |-> << >>]
NoResult == [errors |-> NoErrors, message |-> "undefined"]
Message(m) == [errors |-> NoErrors, message |-> m]

MsgCreateInvalid == "Missing fields. Failed to create invoice."
MsgCreateDb == "Database Error: Failed to Create Invoice."
MsgUpdateDb == "Database Error: Failed to Update Invoice."
MsgDeleteDb == "Database Error: Failed to Delete Invoice."
MsgDeleted == "Deleted Invoice."

NoParams == [customer_id |-> "", amount |-> 0, status |-> ""]

\* const amountInCents = amount * 100, in units of 1/Scale cent
AmountInCents(amount) == amount.milli * 100

(***************************************************************************)
(* The three statements, on a table that is a set of rows.                 *)
(***************************************************************************)
InsertRow(t, id, p, date) ==
    t \cup {[id |-> id, customer_id |-> p.customer_id, amount |-> p.amount,
             status |-> p.status, date |-> date]}

\* a slip: the UPDATE also sets date
UpdateRowsAndDate(t, id, p) ==
    {IF r.id = id
     THEN [r EXCEPT !.customer_id = p.customer_id, !.amount = p.amount,
                    !.status = p.status, !.date = today]
     ELSE r : r \in t}

UpdateRows(t, id, p) ==
    {IF r.id = id
     THEN [r EXCEPT !.customer_id = p.customer_id, !.amount = p.amount,
                    !.status = p.status]
     ELSE r : r \in t}

\* a slip: the DELETE has no WHERE clause
DeleteAllRows(t, id) == {}

DeleteRows(t, id) == {r \in t : r.id # id}

(***************************************************************************)
(* What a handler does once its input is parsed: the external calls it     *)
(* makes in order (events), whether its statement was committed, and how   *)
(* the invocation ends: "return" with a result, "redirect" when the signal *)
(* raised by redirect() leaves the handler, "throw" when an error does.    *)
(***************************************************************************)
Ended(events, committed, outcome, thrown, result) ==
    [events |-> events, committed |-> committed, outcome |-> outcome,
     thrown |-> thrown, result |-> result]

\* a slip: revalidatePath and redirect moved inside the try block
CreateInvoiceRedirectInTry(ext) ==
    IF ext = "sqlRejects"
    THEN Ended(<<"sql">>, FALSE, "return", "none", Message(MsgCreateDb))
    ELSE IF ext = "revalidatePathThrows"
    THEN Ended(<<"sql", "revalidatePath">>, TRUE, "return", "none",
               Message(MsgCreateDb))
    ELSE Ended(<<"sql", "revalidatePath", "redirect">>, TRUE, "return", "none",
               Message(MsgCreateDb))

\* try { await sql`INSERT ...` } catch { return {message} };
\* revalidatePath(...); redirect(...)
CreateInvoiceBody(ext) ==
    IF ext = "sqlRejects"
    THEN Ended(<<"sql">>, FALSE, "return", "none", Message(MsgCreateDb))
    ELSE IF ext = "revalidatePathThrows"
    THEN Ended(<<"sql", "revalidatePath">>, TRUE, "throw", "Error", NoResult)
    ELSE Ended(<<"sql", "revalidatePath", "redirect">>, TRUE, "redirect",
               "NEXT_REDIRECT", NoResult)

\* a slip: the catch block logs the error and does not return
UpdateInvoiceCatchFallsThrough(ext) ==
    IF ext = "revalidatePathThrows"
    THEN Ended(<<"sql", "revalidatePath">>, TRUE, "throw", "Error", NoResult)
    ELSE Ended(<<"sql", "revalidatePath", "redirect">>, ext # "sqlRejects",
               "redirect", "NEXT_REDIRECT", NoResult)

\* try { await sql`UPDATE ...` } catch { return {message} };
\* revalidatePath(...); redirect(...)
UpdateInvoiceBody(ext) ==
    IF ext = "sqlRejects"
    THEN Ended(<<"sql">>, FALSE, "return", "none", Message(MsgUpdateDb))
    ELSE IF ext = "revalidatePathThrows"
    THEN Ended(<<"sql", "revalidatePath">>, TRUE, "throw", "Error", NoResult)
    ELSE Ended(<<"sql", "revalidatePath", "redirect">>, TRUE, "redirect",
               "NEXT_REDIRECT", NoResult)

\* a slip: the cache is invalidated before the DELETE is issued
DeleteInvoiceRevalidatesFirst(ext) ==
    IF ext = "revalidatePathThrows"
    THEN Ended(<<"revalidatePath">>, FALSE, "return", "none", Message(MsgDeleteDb))
    ELSE IF ext = "sqlRejects"
    THEN Ended(<<"revalidatePath", "sql">>, FALSE, "return", "none",
               Message(MsgDeleteDb))
    ELSE Ended(<<"revalidatePath", "sql">>, TRUE, "return", "none",
               Message(MsgDeleted))

\* try { await sql`DELETE ...`; revalidatePath(...); return {message} }
\* catch { return {message} }
DeleteInvoiceBody(ext) ==
    IF ext = "sqlRejects"
    THEN Ended(<<"sql">>, FALSE, "return", "none", Message(MsgDeleteDb))
    ELSE IF ext = "revalidatePathThrows"
    THEN Ended(<<"sql", "revalidatePath">>, TRUE, "return", "none",
               Message(MsgDeleteDb))
    ELSE Ended(<<"sql", "revalidatePath">>, TRUE, "return", "none",
               Message(MsgDeleted))

\* the parameters bound to the INSERT and the UPDATE
Params(data) ==
    [customer_id |-> data.customerId, amount |-> AmountInCents(data.amount),
     status |-> data.status]

Record(handler, id, formData, ext, params, e) ==
    [handler |-> handler, id |-> id, form |-> formData, ext |-> ext,
     before |-> table, params |-> params, events |-> e.events, committed |-> e.committed,
     outcome |-> e.outcome, thrown |-> e.thrown, result |-> e.result]

NoCall == [handler |-> "none", id |-> 0, form |-> NoForm, ext |-> "ok",
           before |-> {},
           params |-> NoParams, events |-> << >>, committed |-> FALSE,
           outcome |-> "none", thrown |-> "none", result |-> NoResult]

(***************************************************************************)
(* The state machine.                                                      *)
(***************************************************************************)
\* The table holds two invoices created earlier, on day 0, by createInvoice
\* from {c1, 45.5, pending} and {c1, 45.5, paid}.
SeedRows ==
    {[id |-> 1, customer_id |-> "c1", amount |-> 4550 * Scale,
      status |-> "pending", date |-> 0],
     [id |-> 2, customer_id |-> "c1", amount |-> 4550 * Scale,
      status |-> "paid", date |-> 0]}

Init ==
    /\ table = SeedRows
    /\ nextId = 3
    /\ today = 0
    /\ ops = 0
    /\ call = NoCall

createInvoice(formData, ext) ==
    /\ call = NoCall
    /\ ops < MaxOps
    /\ ops' = ops + 1
    /\ today' = today
    /\ LET validatedFields == SafeParse(formData)
       IN  IF ~validatedFields.success
           THEN /\ table' = table
                /\ nextId' = nextId
                /\ call' = Record("createInvoice", 0, formData, ext, NoParams,
                                  Ended(<< >>, FALSE, "return", "none",
                                        [errors |-> validatedFields.fieldErrors,
                                         message |-> MsgCreateInvalid]))
           ELSE LET p == Params(validatedFields.data)
                    e == CreateInvoiceBody(ext)
                IN  /\ table' = IF e.committed
                                THEN InsertRow(table, nextId, p, today)
                                ELSE table
                    /\ nextId' = IF e.committed THEN nextId + 1 ELSE nextId
                    /\ call' = Record("createInvoice", 0, formData, ext, p, e)

updateInvoice(id, formData, ext) ==
    /\ call = NoCall
    /\ ops < MaxOps
    /\ ops' = ops + 1
    /\ today' = today
    /\ nextId' = nextId
    /\ LET parsed == SafeParse(formData)
       IN  IF ~parsed.success
           THEN \* UpdateInvoice.parse(...) throws the ZodError
                /\ table' = table
                /\ call' = Record("updateInvoice", id, formData, ext, NoParams,
                                  Ended(<< >>, FALSE, "throw", "ZodError", NoResult))
           ELSE LET p == Params(parsed.data)
                    e == UpdateInvoiceBody(ext)
                IN  /\ table' = IF e.committed THEN UpdateRows(table, id, p)
                                ELSE table
                    /\ call' = Record("updateInvoice", id, formData, ext, p, e)

deleteInvoice(id, ext) ==
    /\ call = NoCall
    /\ ops < MaxOps
    /\ ops' = ops + 1
    /\ today' = today
    /\ nextId' = nextId
    /\ LET e == DeleteInvoiceBody(ext)
       IN  /\ table' = IF e.committed THEN DeleteRows(table, id) ELSE table
           /\ call' = Record("deleteInvoice", id, NoForm, ext, NoParams, e)

\* the calendar day read by new Date() moves on, between two requests
Tick ==
    /\ call = NoCall
    /\ ops < MaxOps
    /\ today < MaxDay
    /\ ops' = ops + 1
    /\ today' = today + 1
    /\ UNCHANGED <<table, nextId, call>>

\* the request ends: its outcome has reached the caller
EndRequest ==
    /\ call # NoCall
    /\ call' = NoCall
    /\ UNCHANGED <<table, nextId, today, ops>>

\* ids a caller may pass: those the storage has generated, and one it has not
Ids == 1 .. nextId

\* What the calls an invocation makes do: the awaited statement resolves
\* and revalidatePath returns, or the statement rejects, or the statement
\* resolves and revalidatePath raises.  (redirect always raises its signal.)
Externals == {"ok", "sqlRejects", "revalidatePathThrows"}

\* an invocation whose input is rejected makes no call
Reached(formData) == IF SafeParse(formData).success THEN Externals ELSE {"ok"}

Next ==
    \/ /\ call = NoCall
       /\ \E f \in Forms : \E ext \in Reached(f) : createInvoice(f, ext)
    \/ /\ call = NoCall
       /\ \E id \in Ids, f \in Forms : \E ext \in Reached(f) :
             updateInvoice(id, f, ext)
    \/ /\ call = NoCall
       /\ \E id \in Ids, ext \in Externals : deleteInvoice(id, ext)
    \/ EndRequest
    \/ Tick

Spec == Init /\ [][Next]_vars

(***************************************************************************)
(* Vocabulary of the properties.                                           *)
(***************************************************************************)
Has(events, e) == \E i \in DOMAIN events : events[i] = e

Precedes(events, a, b) ==
    \A i, j \in DOMAIN events : (events[i] = a /\ events[j] = b) => i < j

\* amount coerces to a number strictly greater than 0
AmountOk(formData) ==
    LET n == CoerceNumber(formData.amount) IN ~n.nan /\ n.milli > 0

StatusOk(formData) == formData.status \in {Str("pending"), Str("paid")}

HasFieldError(f) ==
    /\ f \in DOMAIN call.result.errors
    /\ call.result.errors[f] # << >>

DatabaseError == {MsgCreateDb, MsgUpdateDb, MsgDeleteDb}

\* the statement was issued and rejected
SqlFailed == Has(call.events, "sql") /\ call.ext = "sqlRejects"

\* Math.round of a value in units of 1/Scale
Round(x) == ((x + Scale \div 2) \div Scale) * Scale

RowsWithId(t, id) == {r \in t : r.id = id}

(***************************************************************************)
(* C1.  A createInvoice submission whose amount does not coerce to a       *)
(* number greater than 0, or whose status is not pending or paid, returns  *)
(* a result with an error list for each failing field and a general        *)
(* message, and makes no storage write, no cache invalidation and no       *)
(* redirect.                                                               *)
(***************************************************************************)
C1_InvalidCreateReturnsErrors ==
    (/\ call.handler = "createInvoice"
     /\ ~AmountOk(call.form) \/ ~StatusOk(call.form))
    => /\ call.outcome = "return"
       /\ call.result.message = MsgCreateInvalid
       /\ ~AmountOk(call.form) => HasFieldError("amount")
       /\ ~StatusOk(call.form) => HasFieldError("status")
       /\ call.events = << >>
       /\ ~call.committed
       /\ table = call.before

C1_Witness ==
    /\ call.handler = "createInvoice"
    /\ call.form.customerId = Str("c1")
    /\ call.form.amount = Str(<<"0">>)
    /\ call.form.status = Str("draft")
    /\ DOMAIN call.result.errors = {"amount", "status"}

(***************************************************************************)
(* C2.  updateInvoice returns the validation errors of an invalid          *)
(* submission (bad amount, bad status or absent customerId) as structured  *)
(* field errors: it does not throw, and it does not issue the UPDATE.      *)
(***************************************************************************)
C2_InvalidUpdateReturnsErrors ==
    (/\ call.handler = "updateInvoice"
     /\ \/ ~AmountOk(call.form)
        \/ ~StatusOk(call.form)
        \/ call.form.customerId = Null)
    => /\ call.outcome = "return"
       /\ DOMAIN call.result.errors # {}
       /\ ~Has(call.events, "sql")

(***************************************************************************)
(* C3.  When the storage statement of createInvoice, updateInvoice or      *)
(* deleteInvoice fails, the handler returns its 'Database Error' message,  *)
(* nothing is thrown, and neither revalidatePath nor redirect is called.   *)
(***************************************************************************)
C3_StorageFailureReturnsMessage ==
    SqlFailed
    => /\ call.outcome = "return"
       /\ call.thrown = "none"
       /\ call.result.message \in DatabaseError
       /\ call.result.errors = NoErrors
       /\ ~Has(call.events, "revalidatePath")
       /\ ~Has(call.events, "redirect")
       /\ table = call.before

C3_Witness ==
    /\ call.handler = "updateInvoice"
    /\ SqlFailed
    /\ RowsWithId(call.before, call.id) # {}
    /\ call.result.message = MsgUpdateDb

(***************************************************************************)
(* C4.  In a successful invocation the storage write comes first, then the *)
(* cache invalidation, then (createInvoice and updateInvoice) the          *)
(* redirect; deleteInvoice never redirects and returns its confirmation    *)
(* after invalidating.  In no invocation does the invalidation precede the *)
(* write or the redirect precede the invalidation.                         *)
(***************************************************************************)
C4_WriteThenInvalidateThenRedirect ==
    /\ Precedes(call.events, "sql", "revalidatePath")
    /\ Precedes(call.events, "revalidatePath", "redirect")
    /\ Has(call.events, "redirect") => Has(call.events, "revalidatePath")
    /\ Has(call.events, "revalidatePath")
          => Has(call.events, "sql") /\ call.committed
    /\ call.outcome = "redirect"
          => /\ call.handler \in {"createInvoice", "updateInvoice"}
             /\ call.events = <<"sql", "revalidatePath", "redirect">>
    /\ call.handler = "deleteInvoice"
          => /\ ~Has(call.events, "redirect")
             /\ call.outcome = "return"
             /\ call.result.message = MsgDeleted
                   => call.events = <<"sql", "revalidatePath">>

C4_Witness ==
    /\ call.handler = "createInvoice"
    /\ call.outcome = "redirect"
    /\ call.committed
    /\ Cardinality(table) = Cardinality(call.before) + 1

(***************************************************************************)
(* C5.  The amount bound to the INSERT and to the UPDATE is the integer    *)
(* round(a * 100) for the validated amount a.                              *)
(***************************************************************************)
C5_AmountIsRoundedCents ==
    (/\ call.handler \in {"createInvoice", "updateInvoice"}
     /\ Has(call.events, "sql"))
    => /\ call.params.amount % Scale = 0
       /\ call.params.amount = Round(CoerceNumber(call.form.amount).milli * 100)

(***************************************************************************)
(* C6.  A committed updateInvoice(id, form) sets customer_id, amount and   *)
(* status of the rows with that id and leaves their id and date, and every *)
(* other row, as they were; no invocation of any handler changes the date  *)
(* of a row that is still in the table.                                    *)
(***************************************************************************)
C6_UpdateFrame ==
    /\ call.handler # "none"
          => \A r \in call.before, q \in table : r.id = q.id => r.date = q.date
    /\ (call.handler = "updateInvoice" /\ call.committed)
          => /\ \A r \in call.before : r.id # call.id => r \in table
             /\ \A q \in table : q.id # call.id => q \in call.before
             /\ \A r \in call.before : r.id = call.id
                   => [id |-> r.id, customer_id |-> call.params.customer_id,
                       amount |-> call.params.amount,
                       status |-> call.params.status, date |-> r.date] \in table
             /\ Cardinality(table) = Cardinality(call.before)

C6_Witness ==
    /\ call.handler = "updateInvoice"
    /\ call.committed
    /\ Cardinality(call.before) = 2
    /\ \E r \in call.before :
          /\ r.id = call.id
          /\ r.date # today
          /\ r.customer_id = "c1"
          /\ call.params.customer_id = "c2"
          /\ r.amount # call.params.amount
          /\ r.status # call.params.status

(***************************************************************************)
(* C7.  deleteInvoice(id), when neither its statement nor revalidatePath   *)
(* fails, returns {message: 'Deleted Invoice.'}; it removes the one row    *)
(* with that id and no other, and when there is no such row it removes     *)
(* none: a second deleteInvoice(id) leaves the table as the first left it. *)
(***************************************************************************)
C7_DeleteRemovesTheRow ==
    (call.handler = "deleteInvoice" /\ call.ext = "ok")
    => /\ call.outcome = "return"
       /\ call.result = Message(MsgDeleted)
       /\ table = call.before \ RowsWithId(call.before, call.id)
       /\ Cardinality(call.before) - Cardinality(table)
             = IF RowsWithId(call.before, call.id) # {} THEN 1 ELSE 0
       /\ RowsWithId(call.before, call.id) = {} => table = call.before

C7_Witness ==
    /\ call.handler = "deleteInvoice"
    /\ call.ext = "ok"
    /\ Cardinality(call.before) = 2
    /\ Cardinality(table) = 1
    /\ RowsWithId(call.before, call.id) # {}

(***************************************************************************)
(* C8.  createInvoice returns a field error for customerId, and inserts no *)
(* row, whenever customerId is absent or the empty string.                 *)
(***************************************************************************)
C8_MissingCustomerRejected ==
    (/\ call.handler = "createInvoice"
     /\ call.form.customerId \in {Null, Str("")})
    => /\ HasFieldError("customerId")
       /\ ~Has(call.events, "sql")
       /\ table = call.before

(***************************************************************************)
(* C9.  In createInvoice and updateInvoice the signal raised by redirect   *)
(* leaves the handler whenever redirect is called, redirect is called      *)
(* whenever the statement and the invalidation succeed, and a 'Database    *)
(* Error' message is returned only when the statement failed.              *)
(***************************************************************************)
C9_RedirectSignalPropagates ==
    call.handler \in {"createInvoice", "updateInvoice"}
    => /\ Has(call.events, "redirect")
             => call.outcome = "redirect" /\ call.thrown = "NEXT_REDIRECT"
       /\ (Has(call.events, "sql") /\ call.ext = "ok")
             => call.outcome = "redirect"
       /\ call.result.message \in DatabaseError
             => call.ext = "sqlRejects" /\ ~call.committed

C9_Witness ==
    /\ call.handler = "updateInvoice"
    /\ call.outcome = "redirect"
    /\ call.thrown = "NEXT_REDIRECT"
    /\ call.committed

(***************************************************************************)
(* C10.  When an invocation ends in failure (it returns validation errors  *)
(* or a 'Database Error' message) the table is as it was before the        *)
(* invocation.                                                             *)
(***************************************************************************)
C10_FailureLeavesTableUnchanged ==
    (/\ call.outcome = "return"
     /\ \/ DOMAIN call.result.errors # {}
        \/ call.result.message \in DatabaseError)
    => table = call.before

====
